---- MODULE Spec2Model ----
(***************************************************************************)
(* Model of the AI assistance path of the Dependabot dashboard:            *)
(*   AIService                (static/js/components/alert-card.js)         *)
(*   AIAssistModalComponent   (unnamed/part_001)                           *)
(*   DependabotApp            (unnamed/part_000)                           *)
(*   AppHelpers               (static/js/services/github-api.js)           *)
(*                                                                         *)
(* JavaScript runs one task at a time: every action below is one task (a   *)
(* user event, a timer, or the continuation of an async function after a   *)
(* network await) together with all the microtasks it triggers (promise    *)
(* rejections travelling up through catch/finally blocks).                 *)
(*                                                                         *)
(* Text is a sequence of tokens; a chunk of the response body is one       *)
(* token.  String.includes('Done') is a search for the token "Done".       *)
(***************************************************************************)
EXTENDS Integers, Sequences, FiniteSets, TLC

\* ------------------------------------------------------------------ bounds
\* number of HTTP exchanges with /stream_fix that may be started
MaxSessions == 2
\* number of chunks one response body may deliver
MaxChunks == 2
\* number of clock steps
MaxTicks == 1
\* number of pending content-clearing timeouts
MaxTimers == 1
\* the hour at which the clock of the cache specification stops
MaxClockHours == 26

\* one clock step: a day in milliseconds
TickMs == 24 * 60 * 60 * 1000

\* an hour in milliseconds, and the clock steps of the cache specification
Hour == 60 * 60 * 1000
ClockSteps == {12 * Hour, 13 * Hour}

\* ------------------------------------------------------------- constants
ERROR_MESSAGES ==
    [ NETWORK_ERROR    |-> "Network error occurred. Please check your connection.",
      AI_SERVICE_ERROR |-> "AI service is currently unavailable. Please try again later.",
      UNAUTHORIZED     |-> "Unauthorized access. Please check your GitHub token.",
      RATE_LIMITED     |-> "Rate limit exceeded. Please wait before making more requests." ]

\* the messages thrown by AIService itself
ALREADY_IN_PROGRESS == "AI assistance is already in progress"
SERVICE_UNAVAILABLE == "AI service is temporarily unavailable. Please try again later."
SERVICE_INTERNAL    == "AI service encountered an internal error. Please try again."
FAILED_TO_FETCH     == "Failed to fetch"
STREAM_READ_FAILED  == "network error"

\* GITHUB_CONFIG.API_TIMEOUT, handed to http.post as the option `timeout`,
\* which fetch does not know: no timer of the program depends on it
API_TIMEOUT == 30000

\* retention window of getCachedResponse
RETENTION == 24 * 60 * 60 * 1000

\* ---------------------------------------------------------------- alerts
NoAlert == "none"

\* the alert lists a page may have loaded
LoadedLists == {{"a1", "a2"}, {"a1", "a3"}}

\* the alert objects; a3 carries an empty package
\* (GitHubApiService._processAlert lets the raw fields override its defaults)
Alert(id) ==
    CASE id = "a1" -> [id |-> "a1", vulnerability |-> "Prototype Pollution",
                       package |-> "lodash", severity |-> "high"]
      [] id = "a2" -> [id |-> "a2", vulnerability |-> "Arbitrary File Write",
                       package |-> "left<pad", severity |-> "critical"]
      [] id = "a3" -> [id |-> "a3", vulnerability |-> "ReDoS",
                       package |-> "", severity |-> "low"]

\* AppHelpers.escapeHtml on the tokens of the model
escapeHtml(unsafe) ==
    CASE unsafe = "left<pad"    -> "left&lt;pad"
      [] unsafe = "left&lt;pad" -> "left&amp;lt;pad"
      [] OTHER                  -> unsafe

\* AIService._validateAlertData: the missing required fields, and the request
requiredFields == {"vulnerability", "package", "severity"}

missingFields(alertData) == {f \in requiredFields : alertData[f] = ""}

MissingMessage(missing) ==
    CASE missing = {"vulnerability"} -> "Missing required fields: vulnerability"
      [] missing = {"package"}       -> "Missing required fields: package"
      [] missing = {"severity"}      -> "Missing required fields: severity"
      [] OTHER                       -> "Missing required fields: several"

\* either it throws (message), or it returns the request (value)
_validateAlertData(alertData) ==
    IF missingFields(alertData) # {}
    THEN [threw |-> TRUE, message |-> MissingMessage(missingFields(alertData)),
          value |-> [vulnerability |-> "", package |-> "", severity |-> ""]]
    ELSE [threw |-> FALSE, message |-> "",
          value |-> [vulnerability |-> escapeHtml(alertData.vulnerability),
                     package       |-> escapeHtml(alertData.package),
                     severity      |-> alertData.severity]]

\* ------------------------------------------------------------------ text
EmptyText == << >>
DoneMarker == "Done"

\* String.prototype.includes on token sequences
includes(buffer, token) == \E i \in DOMAIN buffer : buffer[i] = token

\* a read loop that never tests the buffer
hasCompletionMarkerNever(buffer) == FALSE

\* the completion test of _handleStreamingResponse
hasCompletionMarker(buffer) == includes(buffer, DoneMarker)

\* AIService.formatResponse: '' for an empty response, else the escaped text
formatResponse(rawResponse) ==
    IF rawResponse = EmptyText THEN EmptyText
    ELSE [i \in DOMAIN rawResponse |-> escapeHtml(rawResponse[i])]

\* the chunks the suggestion service may send for a request: the package as
\* the request names it, or the completion marker
ChunksFor(request) == {request.package, DoneMarker}

\* an alert object as _processAlert builds it has no field repo_name
NoRepoName == "undefined"

\* the repository handleRepositorySelected stored under 'selected_repository'
\* before the alerts were loaded
SelectedRepository == [full_name |-> "octo/app"]

\* --------------------------------------------------------------- state
VARIABLES
    alerts,        \* AlertCardComponent.alerts: the ids of the rendered alerts
    repo_name,     \* the field repo_name of each rendered alert object
    loading,       \* the alerts whose AI Assist button is disabled (setButtonLoading)
    aiService,     \* AIService: [isStreaming, currentStream]
    modal,         \* AIAssistModalComponent: [isVisible, currentAlert, isStreaming, content, prDisabled]
    storage,       \* localStorage: "ok", "throws" (every access throws) or
                   \* "unparsable" (the item 'ai_responses' is no JSON text)
    ai_responses,  \* localStorage item 'ai_responses': alert id -> [response, timestamp]
    sessions,      \* the calls of streamFixSuggestion that issued the POST, in order
    now,           \* Date.now()
    timers,        \* pending setTimeout callbacks of closeModal
    classified,    \* a failure signal, and what a classifier made of it
    gitHubApiService, \* GitHubApiService: [isLoading]
    sidebar,       \* SidebarComponent: [repositories, selectedRepository, isLoading], with
                   \* the search button, the load button and the loading overlay
    requests,      \* the accepted calls of searchRepositories and loadSecurityAlerts
    processed      \* a raw alert, and what _processAlert and _validateAlertData made of it

vars == <<alerts, repo_name, loading, aiService, modal, storage, ai_responses, sessions, now, timers,
          classified,
          gitHubApiService, sidebar, requests, processed>>

NoStream == 0

Content(kind, text) == [kind |-> kind, text |-> text]

Event(type, text, message) == [type |-> type, text |-> text, message |-> message]

\* the object storage.get('ai_responses', {}) defaults to
EmptyCache == [k \in {} |-> [response |-> EmptyText, timestamp |-> 0]]

\* ------------------------------------------------------- failure signals
\* a failure signal: the status of the response (0: there is none), the raw
\* message (the error field of the response body, or the message of the error
\* object; NoMessage: there is none) and the kind of object (a Response, an
\* Error, a TypeError as fetch rejects with, an object that is no Error, null).
\* An Error or TypeError object always has a message, be it the empty string.
NoMessage == "undefined"
SignalStatuses == {0, 401, 404, 429, 500, 503}
SignalMessages == {NoMessage, "", "upstream failure", "Failed to fetch"}
SignalNames == {"Response", "Error", "TypeError", "Object"}
NullSignal == [status |-> 0, message |-> NoMessage, name |-> "null"]
Signals ==
    {signal \in [status : SignalStatuses, message : SignalMessages, name : SignalNames] :
        signal.name \in {"Error", "TypeError"} => signal.message # NoMessage}
       \cup {NullSignal}

\* a signal no classifier was applied to
Unclassified(signal) ==
    [signal |-> signal, by |-> "none", threw |-> FALSE, message |-> ""]

\* ------------------------------------------- repositories and raw alerts
NoRepository == "null"
Repositories == {"octo/app", "octo/lib"}

\* SidebarComponent after its constructor; the markup disables the load button
SidebarFresh ==
    [repositories |-> {}, selectedRepository |-> NoRepository, isLoading |-> FALSE,
     searchBtnDisabled |-> FALSE, loadBtnDisabled |-> TRUE, loadingOverlay |-> FALSE]

\* the sidebar after a search, the selection of a repository and the load of
\* its alerts
SidebarLoaded ==
    [repositories |-> Repositories, selectedRepository |-> SelectedRepository.full_name,
     isLoading |-> FALSE, searchBtnDisabled |-> FALSE, loadBtnDisabled |-> FALSE,
     loadingOverlay |-> FALSE]

\* a field a raw alert does not have
Absent == "undefined"

\* a JSON null, which is no string
NullValue == "null"

\* a title of more than MAX_VULNERABILITY_TITLE_LENGTH characters
LongTitle ==
    "Regular Expression Denial of Service in the parser of nested template literals of lodash"

\* the raw alerts of the service's answer: each required field is absent, empty
\* or set, and a severity may be none of the four levels
RawAlerts ==
    [vulnerability : {Absent, NullValue, "", "Prototype Pollution", LongTitle},
     package       : {Absent, "", "lodash"},
     severity      : {Absent, "", "high", "urgent"}]

NullRaw == [vulnerability |-> Absent, package |-> Absent, severity |-> Absent]

Unprocessed(raw) == [raw |-> raw, stage |-> "raw", alert |-> raw, threw |-> FALSE]

\* the page after its scripts ran, with one of the given alert lists loaded,
\* over a localStorage in the given mode that holds the given item
\* 'ai_responses', and with one of the given failure signals to classify
InitPage(lists, mode, cache, signals, raws) ==
    /\ alerts \in lists
    /\ repo_name = [a \in alerts |-> NoRepoName]
    /\ loading = {}
    /\ aiService = [isStreaming |-> FALSE, currentStream |-> NoStream]
    /\ modal = [isVisible |-> FALSE, currentAlert |-> NoAlert, isStreaming |-> FALSE,
                content |-> Content("thinking", EmptyText), prDisabled |-> FALSE]
    /\ storage = mode
    /\ ai_responses = cache
    /\ sessions = << >>
    /\ now = 0
    /\ timers = 0
    /\ classified \in {Unclassified(signal) : signal \in signals}
    /\ gitHubApiService = [isLoading |-> FALSE]
    /\ sidebar = IF alerts = {} THEN SidebarFresh ELSE SidebarLoaded
    /\ requests = << >>
    /\ processed \in {Unprocessed(raw) : raw \in raws}

InitWith(lists, mode, cache, signals) == InitPage(lists, mode, cache, signals, {NullRaw})

Init == InitWith(LoadedLists, "ok", EmptyCache, {NullSignal})

\* a localStorage that fails: it throws on every access, over whatever an
\* earlier visit of the page stored, or its item is not parsable
StorageInit ==
    \/ InitWith({{"a1", "a2"}}, "throws",
                [k \in {"a1"} |-> [response |-> <<DoneMarker>>, timestamp |-> 0]],
                {NullSignal})
    \/ InitWith({{"a1", "a2"}}, "unparsable", EmptyCache, {NullSignal})

\* ------------------------------------------------- AppHelpers.storage, cache
\* storage.get that hands out the item whatever the mode of localStorage
storageGetNoDefault(mode, item, defaultValue) == item

\* storage.get: the parsed item, or the default when getItem or JSON.parse throws
storageGet(mode, item, defaultValue) ==
    IF mode = "ok" THEN item ELSE defaultValue

\* storage.set: setItem replaces the item, unless it throws (caught)
storageSet(mode, item, value) ==
    IF mode = "throws" THEN [mode |-> mode, item |-> item]
    ELSE [mode |-> "ok", item |-> value]

\* storage.remove: removeItem, unless it throws (caught)
storageRemove(mode, item) ==
    IF mode = "throws" THEN [mode |-> mode, item |-> item]
    ELSE [mode |-> "ok", item |-> EmptyCache]

\* AppHelpers.storage.get('ai_responses', {})
StoredCache == storageGet(storage, ai_responses, EmptyCache)

\* AIService.cacheResponse: no write for a missing id or an empty response
cacheResponse(cache, alertId, response, t) ==
    IF alertId = NoAlert \/ response = EmptyText THEN cache
    ELSE [k \in (DOMAIN cache) \cup {alertId} |->
            IF k = alertId THEN [response |-> response, timestamp |-> t]
            ELSE cache[k]]

\* a cache read that returns an entry whatever its age
getCachedResponseAnyAge(cache, alertId, t) ==
    IF alertId # NoAlert /\ alertId \in DOMAIN cache /\ cache[alertId].response # EmptyText
    THEN [null |-> FALSE, value |-> cache[alertId].response]
    ELSE [null |-> TRUE, value |-> EmptyText]

\* AIService.getCachedResponse: null, or the response of a valid entry
getCachedResponse(cache, alertId, t) ==
    IF /\ alertId # NoAlert
       /\ alertId \in DOMAIN cache
       /\ cache[alertId].response # EmptyText
       /\ (t - cache[alertId].timestamp) < RETENTION
    THEN [null |-> FALSE, value |-> cache[alertId].response]
    ELSE [null |-> TRUE, value |-> EmptyText]

\* a clearCache that removes nothing
clearCacheKeeps(mode, cache) == [mode |-> mode, item |-> cache]

\* AIService.clearCache: storage.remove('ai_responses'); a later storage.get
\* yields the default {}
clearCache(mode, cache) == storageRemove(mode, cache)

\* ----------------------------------------------- AIAssistModalComponent
showLoadingState(m) ==
    [m EXCEPT !.content = Content("loading", EmptyText), !.prDisabled = TRUE]

showError(m, errorMessage) ==
    [m EXCEPT !.content = Content("error", <<errorMessage>>)]

updateStreamingContent(m, data) ==
    IF ~m.isVisible THEN m
    ELSE [m EXCEPT !.content = Content("text", formatResponse(data))]

handleStreamingError(m, message) ==
    showError([m EXCEPT !.isStreaming = FALSE], message)

\* handleStreamingComplete: the modal after it, the cache after it, and the
\* cache writes it made
handleStreamingComplete(m, cache, finalData, t) ==
    IF ~m.isVisible
    THEN [modal |-> [m EXCEPT !.isStreaming = FALSE], cache |-> cache, writes |-> << >>]
    ELSE [modal |-> [m EXCEPT !.isStreaming = FALSE,
                              !.content = Content("text", formatResponse(finalData)),
                              !.prDisabled = FALSE],
          cache |-> cacheResponse(cache, m.currentAlert, finalData, t),
          writes |-> IF m.currentAlert = NoAlert \/ finalData = EmptyText THEN << >>
                     ELSE << [key |-> m.currentAlert, response |-> finalData] >>]

\* setModalContent and the button of loadCachedResponse
loadCachedResponse(m, cachedResponse) ==
    [m EXCEPT !.content = Content("text", cachedResponse), !.prDisabled = FALSE]

\* a cancelStream that flips the flag instead of clearing it
cancelStreamFlips(svc) == [isStreaming |-> ~svc.isStreaming, currentStream |-> NoStream]

\* ------------------------------------------------------------ AIService
\* cancelStream. currentStream is the ReadableStreamDefaultReader of
\* response.body.getReader(): it offers read, cancel, releaseLock and closed
\* and no abort, so the test `this.currentStream.abort` is false for every
\* stream and nothing is aborted; the two fields are reset.
cancelStream(svc) == [isStreaming |-> FALSE, currentStream |-> NoStream]

\* a finally block that leaves the fields as they are
finallyBlockSkipped(svc) == svc

\* the finally block of streamFixSuggestion
finallyBlock(svc) == [isStreaming |-> FALSE, currentStream |-> NoStream]

Statuses == {429, 404}
NoBody == ""
Bodies == {NoBody, "upstream failure"}

\* _handleApiError without the switch on the status
_handleApiErrorNoSwitch(status, body) ==
    IF body # NoBody THEN body ELSE ERROR_MESSAGES.AI_SERVICE_ERROR

\* _handleApiError: the message of the error it throws
_handleApiError(status, body) ==
    CASE status = 401 -> ERROR_MESSAGES.UNAUTHORIZED
      [] status = 429 -> ERROR_MESSAGES.RATE_LIMITED
      [] status = 503 -> SERVICE_UNAVAILABLE
      [] status = 500 -> SERVICE_INTERNAL
      [] OTHER -> IF body # NoBody THEN body ELSE ERROR_MESSAGES.AI_SERVICE_ERROR

InFlight(s) == sessions[s].pc # "done"

\* what streamFixSuggestion does with alert a before its first await
startOutcome(svc, a) ==
    IF svc.isStreaming THEN "AlreadyInProgress"
    ELSE IF _validateAlertData(Alert(a)).threw THEN "InvalidInput"
    ELSE "started"

\* a call of streamFixSuggestion suspended at its POST. alert, request, pc,
\* status and buffer are the locals of the async function; callback tells
\* whether a handleAIAssistRequest awaits it to call the card's completion
\* callback, which enables the card's button again, and callbackArg is the
\* argument the completion callback of the request was called with ("none"
\* while it was not called, "null" for callback(null)); events, cancelled,
\* cacheHit and writes record what was delivered to the subscriber, whether
\* cancelStream was called during the session, whether the cache held a valid
\* entry for the alert at the start, and the cache writes of its completion.
NewSession(a, request, caller) ==
    [alert |-> a, request |-> request, callback |-> (caller = "awaited"),
     callbackArg |-> IF caller = "cachehit" THEN "null" ELSE "none",
     pc |-> "post", status |-> 0,
     buffer |-> EmptyText, events |-> << >>, cancelled |-> FALSE,
     cacheHit |-> ~getCachedResponse(StoredCache, a, now).null, writes |-> << >>]

\* showModal(alert) from the modal state m0, with streamAIResponse and the
\* synchronous part of streamFixSuggestion. caller tells who called showModal:
\* handleAIAssistRequest awaiting it ("awaited"), handleAIAssistRequest after
\* a cache hit, which calls callback(null) at once ("cachehit"), or the Try
\* Again button ("retry")
ShowModal(m0, a, caller) ==
    LET m1 == showLoadingState([m0 EXCEPT !.currentAlert = a, !.isVisible = TRUE,
                                          !.isStreaming = TRUE])
        v  == _validateAlertData(Alert(a))
    IN  IF startOutcome(aiService, a) = "AlreadyInProgress"
        THEN \* thrown before the try block: no finally, one handleStreamingError
             /\ modal' = handleStreamingError(m1, ALREADY_IN_PROGRESS)
             /\ UNCHANGED <<alerts, gitHubApiService, sidebar, requests, processed, classified, storage, loading, aiService, sessions>>
        ELSE IF startOutcome(aiService, a) = "InvalidInput"
        THEN \* onError in the catch block, finally, then the catch of streamAIResponse
             /\ modal' = handleStreamingError(handleStreamingError(m1, v.message), v.message)
             /\ aiService' = finallyBlock([aiService EXCEPT !.isStreaming = TRUE])
             /\ UNCHANGED <<alerts, gitHubApiService, sidebar, requests, processed, classified, storage, loading, sessions>>
        ELSE \* the POST is issued; the function is suspended at await http.post
             /\ Len(sessions) < MaxSessions
             /\ modal' = m1
             /\ aiService' = [aiService EXCEPT !.isStreaming = TRUE]
             /\ sessions' = Append(sessions, NewSession(a, v.value, caller))
             /\ loading' = IF caller = "awaited" THEN loading \cup {a} ELSE loading
             /\ UNCHANGED <<alerts, gitHubApiService, sidebar, requests, processed, classified, storage>>

\* handleAIAssistRequest: "Add repository context to alert". storage.get
\* returns null when getItem throws, and then nothing had been stored either
addRepositoryContext(names, a, mode) ==
    IF mode = "throws" THEN names
    ELSE [names EXCEPT ![a] = SelectedRepository.full_name]

\* AlertCardComponent.handleAIAssistClick on the card of alert a, with
\* DependabotApp.handleAIAssistRequest(alert, callback). The click disables the
\* card's button until the callback runs: at once when showModal is not awaited
\* (cache hit) or returns without suspending, else when the session ends.
RequestAssist(a) ==
    LET cachedR == getCachedResponse(StoredCache, Alert(a).id, now)
        m0 == IF cachedR.null THEN modal ELSE loadCachedResponse(modal, cachedR.value)
    IN  /\ a \notin loading
        /\ repo_name' = addRepositoryContext(repo_name, a, storage)
        /\ ShowModal(m0, a, IF cachedR.null THEN "awaited" ELSE "cachehit")
        /\ UNCHANGED <<ai_responses, now, timers>>

\* the Try Again button of showError
Retry ==
    /\ modal.isVisible
    /\ modal.content.kind = "error"
    /\ modal.currentAlert # NoAlert
    /\ ShowModal(modal, modal.currentAlert, "retry")
    /\ UNCHANGED repo_name
    /\ UNCHANGED <<ai_responses, now, timers>>

\* the body of closeModal after its test of isVisible, on the state
\* st = [aiService, modal, sessions, timers], with the cancelStream it calls
closeVisibleModal(st) ==
         [aiService |-> IF st.modal.isStreaming THEN cancelStream(st.aiService)
                        ELSE st.aiService,
          modal     |-> [st.modal EXCEPT !.isStreaming = FALSE, !.isVisible = FALSE,
                                         !.currentAlert = NoAlert],
          sessions  |-> IF st.modal.isStreaming
                        THEN [s \in DOMAIN st.sessions |->
                                IF st.sessions[s].pc # "done" /\ ~st.sessions[s].cancelled
                                THEN [st.sessions[s] EXCEPT !.cancelled = TRUE,
                                        !.events = Append(@, Event("Cancelled", EmptyText,
                                                                   st.sessions[s].pc))]
                                ELSE st.sessions[s]]
                        ELSE st.sessions,
          timers    |-> st.timers + 1]

\* closeModal that runs its body whether or not the modal is visible
closeModalUnguarded(st) == closeVisibleModal(st)

\* closeModal: nothing happens when the modal is not visible
closeModal(st) ==
    IF ~st.modal.isVisible THEN st ELSE closeVisibleModal(st)

\* the part of the state closeModal works on
ModalState ==
    [aiService |-> aiService, modal |-> modal, sessions |-> sessions, timers |-> timers]

\* a click on the X or the Close button of the modal: the inline
\* onclick="closeModal()" of the markup and the listener of bindEvents both
\* run, so closeModal is called twice in a row
CloseModal ==
    /\ modal.isVisible
    /\ timers < MaxTimers
    /\ LET r == closeModal(closeModal(ModalState))
       IN  /\ aiService' = r.aiService
           /\ modal' = r.modal
           /\ sessions' = r.sessions
           /\ timers' = r.timers
    /\ UNCHANGED <<alerts, gitHubApiService, sidebar, requests, processed, repo_name, classified, storage, loading, ai_responses, now>>

\* the Escape key, or a click on the background: closeModal is called once
PressEscape ==
    /\ modal.isVisible
    /\ timers < MaxTimers
    /\ LET r == closeModal(ModalState)
       IN  /\ aiService' = r.aiService
           /\ modal' = r.modal
           /\ sessions' = r.sessions
           /\ timers' = r.timers
    /\ UNCHANGED <<alerts, gitHubApiService, sidebar, requests, processed, repo_name, classified, storage, loading, ai_responses, now>>

\* the setTimeout callback of closeModal
ClearContentTimer ==
    /\ timers > 0
    /\ timers' = timers - 1
    /\ modal' = [modal EXCEPT !.content = Content("empty", EmptyText)]
    /\ UNCHANGED <<alerts, gitHubApiService, sidebar, requests, processed, repo_name, classified, storage, loading, aiService, ai_responses, sessions, now>>

\* ------------------------------------------- continuations of a session
\* the end of the session lets showModal and handleAIAssistRequest return:
\* showModal catches what streamAIResponse throws, so handleAIAssistRequest
\* goes on to callback(null), which enables the button of the card
afterCallback(s) ==
    IF sessions[s].callback THEN loading \ {sessions[s].alert} ELSE loading

callbackArgAfter(s) ==
    IF sessions[s].callback THEN "null" ELSE sessions[s].callbackArg

\* an error path that issues the POST again
FailAndRetry(s, message, inner) ==
    LET fromService == IF inner THEN <<Event("onError", EmptyText, message),
                                       Event("onError", EmptyText, message)>>
                       ELSE <<Event("onError", EmptyText, message)>>
        m1 == IF inner THEN handleStreamingError(modal, message) ELSE modal
        m2 == handleStreamingError(m1, message)
    IN  /\ modal' = handleStreamingError(m2, message)
        /\ aiService' = finallyBlock(aiService)
        /\ sessions' = [sessions EXCEPT ![s].pc = "post",
              ![s].events = @ \o fromService \o <<Event("catch", EmptyText, message)>>,
              ![s].callbackArg = callbackArgAfter(s)]
        /\ loading' = afterCallback(s)
        /\ UNCHANGED <<alerts, gitHubApiService, sidebar, requests, processed, repo_name, classified, storage, ai_responses, now, timers>>

\* the error path of streamFixSuggestion after the POST: `inner` tells whether
\* the catch of _handleStreamingResponse ran first
Fail(s, message, inner) ==
    LET fromService == IF inner THEN <<Event("onError", EmptyText, message),
                                       Event("onError", EmptyText, message)>>
                       ELSE <<Event("onError", EmptyText, message)>>
        m1 == IF inner THEN handleStreamingError(modal, message) ELSE modal
        m2 == handleStreamingError(m1, message)
    IN  /\ modal' = handleStreamingError(m2, message)
        /\ aiService' = finallyBlock(aiService)
        /\ sessions' = [sessions EXCEPT ![s].pc = "done",
              ![s].events = @ \o fromService \o <<Event("catch", EmptyText, message)>>,
              ![s].callbackArg = callbackArgAfter(s)]
        /\ loading' = afterCallback(s)
        /\ UNCHANGED <<alerts, gitHubApiService, sidebar, requests, processed, repo_name, classified, storage, ai_responses, now, timers>>

\* onComplete called with the chunk read last
notifyCompleteLastChunk(events, buffer) ==
    Append(events, Event("onComplete",
                         IF buffer = EmptyText THEN buffer ELSE <<buffer[Len(buffer)]>>, ""))

\* after the loop: onComplete(buffer)
notifyComplete(events, buffer) == Append(events, Event("onComplete", buffer, ""))

\* the completion path: onComplete, then the finally block. cacheResponse
\* reads the stored object, adds its entry and hands the object to storage.set
Complete(s, m, buffer, events) ==
    LET r == handleStreamingComplete(m, StoredCache, buffer, now)
        w == IF r.writes = << >> THEN [mode |-> storage, item |-> ai_responses]
             ELSE storageSet(storage, ai_responses, r.cache)
    IN  /\ modal' = r.modal
        /\ ai_responses' = w.item
        /\ storage' = w.mode
        /\ aiService' = finallyBlock(aiService)
        /\ sessions' = [sessions EXCEPT ![s].pc = "done", ![s].buffer = buffer,
              ![s].events = notifyComplete(events, buffer),
              ![s].writes = r.writes,
              ![s].callbackArg = callbackArgAfter(s)]
        /\ loading' = afterCallback(s)
        /\ UNCHANGED <<alerts, gitHubApiService, sidebar, requests, processed, repo_name, classified, now, timers>>

\* http.post resolves with an ok response: _handleStreamingResponse takes the reader
ResponseOk(s) ==
    /\ sessions[s].pc = "post"
    /\ sessions' = [sessions EXCEPT ![s].pc = "read"]
    /\ aiService' = [aiService EXCEPT !.currentStream = s]
    /\ UNCHANGED <<alerts, gitHubApiService, sidebar, requests, processed, repo_name, classified, storage, loading, modal, ai_responses, now, timers>>

\* http.post resolves with a non-ok response: _handleApiError awaits response.json()
ResponseNotOk(s, status) ==
    /\ sessions[s].pc = "post"
    /\ sessions' = [sessions EXCEPT ![s].pc = "json", ![s].status = status]
    /\ UNCHANGED <<alerts, gitHubApiService, sidebar, requests, processed, repo_name, classified, storage, loading, aiService, modal, ai_responses, now, timers>>

\* response.json() settles and _handleApiError throws
ApiErrorThrown(s, body) ==
    /\ sessions[s].pc = "json"
    /\ Fail(s, _handleApiError(sessions[s].status, body), FALSE)

\* http.post rejects: no response reached the client
FetchRejected(s) ==
    /\ sessions[s].pc = "post"
    /\ Fail(s, FAILED_TO_FETCH, FALSE)

\* buffer = chunk + buffer
accumulatePrepended(buffer, chunk) == <<chunk>> \o buffer

\* buffer += chunk
accumulate(buffer, chunk) == Append(buffer, chunk)

\* reader.read() resolves with a chunk
Chunk(s, c) ==
    /\ sessions[s].pc = "read"
    /\ Len(sessions[s].buffer) < MaxChunks
    /\ LET buffer == accumulate(sessions[s].buffer, c)
           m1 == updateStreamingContent(modal, buffer)
           events == Append(sessions[s].events, Event("onData", buffer, ""))
       IN  IF hasCompletionMarker(buffer)
           THEN Complete(s, m1, buffer, events)
           ELSE /\ modal' = m1
                /\ sessions' = [sessions EXCEPT ![s].buffer = buffer, ![s].events = events]
                /\ UNCHANGED <<alerts, gitHubApiService, sidebar, requests, processed, repo_name, classified, storage, loading, aiService, ai_responses, now, timers>>

\* reader.read() resolves with done
StreamEnd(s) ==
    /\ sessions[s].pc = "read"
    /\ Complete(s, modal, sessions[s].buffer, sessions[s].events)

\* reader.read() rejects
ReadRejected(s) ==
    /\ sessions[s].pc = "read"
    /\ Fail(s, STREAM_READ_FAILED, TRUE)

\* time passes
Tick ==
    /\ now < MaxTicks * TickMs
    /\ now' = now + TickMs
    /\ UNCHANGED <<alerts, gitHubApiService, sidebar, requests, processed, repo_name, classified, storage, loading, aiService, modal, ai_responses, sessions, timers>>

\* the scheduler picks the alert card clicked, or the session whose awaited
\* promise settles
ClickAIAssist == \E a \in alerts : RequestAssist(a)
PostResolvesOk == \E s \in DOMAIN sessions : ResponseOk(s)
PostResolvesNotOk == \E s \in DOMAIN sessions, status \in Statuses : ResponseNotOk(s, status)
JsonSettles == \E s \in DOMAIN sessions, body \in Bodies : ApiErrorThrown(s, body)
PostRejects == \E s \in DOMAIN sessions : FetchRejected(s)
ReadResolvesChunk ==
    \E s \in DOMAIN sessions : \E c \in ChunksFor(sessions[s].request) : Chunk(s, c)
ReadResolvesDone == \E s \in DOMAIN sessions : StreamEnd(s)
ReadRejects == \E s \in DOMAIN sessions : ReadRejected(s)

Next ==
    \/ ClickAIAssist
    \/ Retry
    \/ CloseModal
    \/ PressEscape
    \/ ClearContentTimer
    \/ PostResolvesOk
    \/ PostResolvesNotOk
    \/ JsonSettles
    \/ PostRejects
    \/ ReadResolvesChunk
    \/ ReadResolvesDone
    \/ ReadRejects
    \/ Tick

Spec == Init /\ [][Next]_vars

\* ----------------------------------------- the cache on its own
\* the texts handed to cacheResponse, the empty string among them
CacheTexts == {EmptyText, <<"lodash">>, <<DoneMarker>>}

\* cacheResponse(alertId, response) at the current time
CachePutOf(a, text) ==
    /\ LET w == IF a = NoAlert \/ text = EmptyText
                THEN [mode |-> storage, item |-> ai_responses]
                ELSE storageSet(storage, ai_responses,
                                cacheResponse(StoredCache, a, text, now))
       IN  ai_responses' = w.item /\ storage' = w.mode
    /\ UNCHANGED <<alerts, gitHubApiService, sidebar, requests, processed, repo_name, classified, loading, aiService, modal, sessions, now, timers>>

\* loadCachedResponse(alert) of the modal: getCachedResponse, and the text
\* shown when it returns one
CacheLoadOf(a) ==
    /\ LET cachedR == getCachedResponse(StoredCache, a, now)
       IN  modal' = IF cachedR.null THEN modal ELSE loadCachedResponse(modal, cachedR.value)
    /\ UNCHANGED <<alerts, gitHubApiService, sidebar, requests, processed, repo_name, classified, storage, loading, aiService, ai_responses, sessions, now, timers>>

\* time passes
CacheClockStep(d) ==
    /\ now + d <= MaxClockHours * Hour
    /\ now' = now + d
    /\ UNCHANGED <<alerts, gitHubApiService, sidebar, requests, processed, repo_name, classified, storage, loading, aiService, modal, ai_responses, sessions, timers>>

\* clearCache()
CacheClear ==
    /\ LET w == clearCache(storage, ai_responses)
       IN  ai_responses' = w.item /\ storage' = w.mode
    /\ UNCHANGED <<alerts, gitHubApiService, sidebar, requests, processed, repo_name, classified, loading, aiService, modal, sessions, now, timers>>

CachePut == \E a \in alerts, text \in CacheTexts : CachePutOf(a, text)
CacheLoad == \E a \in alerts : CacheLoadOf(a)
CacheClock == \E d \in ClockSteps : CacheClockStep(d)

CacheNext ==
    \/ CachePut
    \/ CacheLoad
    \/ CacheClock
    \/ CacheClear

CacheSpec == Init /\ [][CacheNext]_vars

\* the next answer of the network to session s: the POST settles, the error
\* body settles, or the read settles
NetworkStep(s) ==
    /\ s \in DOMAIN sessions
    /\ \/ ResponseOk(s)
       \/ \E status \in Statuses : ResponseNotOk(s, status)
       \/ \E body \in Bodies : ApiErrorThrown(s, body)
       \/ FetchRejected(s)
       \/ \E c \in ChunksFor(sessions[s].request) : Chunk(s, c)
       \/ StreamEnd(s)
       \/ ReadRejected(s)

\* the page over a network that eventually answers every request and
\* eventually closes or fails every stream
LiveSpec ==
    /\ InitWith({{"a1", "a3"}}, "ok", EmptyCache, {NullSignal})
    /\ [][Next]_vars
    /\ \A s \in 1..MaxSessions : WF_vars(NetworkStep(s))

\* the page over a localStorage that fails
StorageSpec == StorageInit /\ [][Next]_vars

\* ----------------------------------- repository search and alert loading
MaxRequests == 3

\* the repository lists a search may answer with
RepoLists == {{}, Repositories}

\* the alert lists a load may answer with
AlertLists == LoadedLists \cup {{}}

\* SidebarComponent.setLoadingState
setLoadingState(sb, isLoading) ==
    [sb EXCEPT !.isLoading = isLoading,
               !.searchBtnDisabled = isLoading,
               !.loadBtnDisabled = IF sb.selectedRepository = NoRepository THEN TRUE ELSE @]

\* SidebarComponent.clearResults
clearResults(sb) ==
    [sb EXCEPT !.repositories = {}, !.selectedRepository = NoRepository,
               !.loadBtnDisabled = TRUE]

\* DependabotApp.updateLoadButtonState
updateLoadButtonState(sb, enabled) == [sb EXCEPT !.loadBtnDisabled = ~enabled]

\* a guard that sits inside the try block, so that the finally of the
\* refused call clears the flag
refuseRequestInsideTry(api) == [api EXCEPT !.isLoading = FALSE]

\* the guard of searchRepositories and loadSecurityAlerts throws 'Another
\* request is in progress' before the try block: nothing is assigned
refuseRequest(api) == api

\* the finally block of searchRepositories and loadSecurityAlerts
releaseRequest(api) == [api EXCEPT !.isLoading = FALSE]

NewRequest(name) == [name |-> name, pc |-> "http", ok |-> FALSE, outcome |-> "none"]

\* handleSearchClick with performSearch up to its await. valid tells whether
\* validateSearchParams accepts the two inputs
SearchClick(valid) ==
    /\ ~sidebar.isLoading
    /\ IF ~valid
       THEN UNCHANGED <<sidebar, gitHubApiService, requests>>
       ELSE LET sb1 == clearResults(setLoadingState(sidebar, TRUE))
            IN  IF gitHubApiService.isLoading
                THEN \* searchRepositories throws; catch and finally of performSearch
                     /\ gitHubApiService' = refuseRequest(gitHubApiService)
                     /\ sidebar' = setLoadingState(sb1, FALSE)
                     /\ UNCHANGED requests
                ELSE /\ Len(requests) < MaxRequests
                     /\ gitHubApiService' = [gitHubApiService EXCEPT !.isLoading = TRUE]
                     /\ requests' = Append(requests, NewRequest("searchRepositories"))
                     /\ sidebar' = sb1
    /\ UNCHANGED <<alerts, repo_name, loading, aiService, modal, storage, ai_responses,
                   sessions, now, timers, classified, processed>>

\* a click on a repository of the list: selectRepository, then
\* handleRepositorySelected of the app (clearCards, updateLoadButtonState)
SelectRepository(repo) ==
    /\ repo \in sidebar.repositories
    /\ sidebar' = updateLoadButtonState(
                      [sidebar EXCEPT !.selectedRepository = repo, !.loadBtnDisabled = FALSE],
                      TRUE)
    /\ alerts' = {}
    /\ repo_name' = [a \in {} |-> NoRepoName]
    /\ UNCHANGED <<gitHubApiService, requests, loading, aiService, modal, storage,
                   ai_responses, sessions, now, timers, classified, processed>>

\* a click on the enabled load button: handleLoadAlertsClick, then
\* handleLoadAlerts of the app up to its await
LoadAlertsClick ==
    /\ ~sidebar.loadBtnDisabled
    /\ IF sidebar.selectedRepository = NoRepository
       THEN UNCHANGED <<sidebar, gitHubApiService, requests>>
       ELSE LET sb1 == updateLoadButtonState([sidebar EXCEPT !.loadingOverlay = TRUE], FALSE)
            IN  IF gitHubApiService.isLoading
                THEN \* loadSecurityAlerts throws; catch and finally of handleLoadAlerts
                     /\ gitHubApiService' = refuseRequest(gitHubApiService)
                     /\ sidebar' = updateLoadButtonState([sb1 EXCEPT !.loadingOverlay = FALSE],
                                                         TRUE)
                     /\ UNCHANGED requests
                ELSE /\ Len(requests) < MaxRequests
                     /\ gitHubApiService' = [gitHubApiService EXCEPT !.isLoading = TRUE]
                     /\ requests' = Append(requests, NewRequest("loadSecurityAlerts"))
                     /\ sidebar' = sb1
    /\ UNCHANGED <<alerts, repo_name, loading, aiService, modal, storage, ai_responses,
                   sessions, now, timers, classified, processed>>

\* the end of an accepted call: the finally block of the service, then the
\* caller's try, catch and finally. data is what a successful call returned
RequestEnds(r, succeeded, data) ==
    /\ gitHubApiService' = releaseRequest(gitHubApiService)
    /\ requests' = [requests EXCEPT ![r].pc = "done",
                       ![r].outcome = IF succeeded THEN "returned" ELSE "threw"]
    /\ IF requests[r].name = "searchRepositories"
       THEN /\ sidebar' = setLoadingState(
                             IF succeeded THEN [sidebar EXCEPT !.repositories = data]
                             ELSE sidebar,
                             FALSE)
            /\ UNCHANGED <<alerts, repo_name>>
       ELSE /\ sidebar' = updateLoadButtonState([sidebar EXCEPT !.loadingOverlay = FALSE], TRUE)
            /\ alerts' = IF succeeded THEN data ELSE alerts
            /\ repo_name' = IF succeeded THEN [a \in data |-> NoRepoName] ELSE repo_name
    /\ UNCHANGED <<loading, aiService, modal, storage, ai_responses, sessions, now, timers,
                   classified, processed>>

\* http.get or http.post settles: with a response, ok or not, or rejected
HttpSettles(r, answer) ==
    /\ r \in DOMAIN requests
    /\ requests[r].pc = "http"
    /\ IF answer = "rejected"
       THEN RequestEnds(r, FALSE, {})
       ELSE /\ requests' = [requests EXCEPT ![r].pc = "json", ![r].ok = (answer = "ok")]
            /\ UNCHANGED <<alerts, repo_name, gitHubApiService, sidebar, loading, aiService,
                           modal, storage, ai_responses, sessions, now, timers, classified,
                           processed>>

\* response.json() settles: in _handleApiError, which then throws, or with
\* the data of an ok response, well-formed or not
BodySettles(r, data, wellFormed) ==
    /\ r \in DOMAIN requests
    /\ requests[r].pc = "json"
    /\ data \in (IF requests[r].name = "searchRepositories" THEN RepoLists ELSE AlertLists)
    /\ RequestEnds(r, requests[r].ok /\ wellFormed, data)

SearchClicked == \E valid \in BOOLEAN : SearchClick(valid)
RepositoryClicked == \E repo \in Repositories : SelectRepository(repo)
HttpAnswers == \E r \in 1..MaxRequests, answer \in {"ok", "notOk", "rejected"} : HttpSettles(r, answer)
BodyAnswers ==
    \E r \in 1..MaxRequests, data \in RepoLists \cup AlertLists, wellFormed \in BOOLEAN :
       BodySettles(r, data, wellFormed)

RepoNext ==
    \/ SearchClicked
    \/ RepositoryClicked
    \/ LoadAlertsClick
    \/ HttpAnswers
    \/ BodyAnswers

\* the page before any alerts were loaded
RepoInit == InitWith({{}}, "ok", EmptyCache, {NullSignal})

RepoSpec == RepoInit /\ [][RepoNext]_vars

\* --------------------------------------------- _processAlert on its own
MAX_VULNERABILITY_TITLE_LENGTH == 80

SEVERITY_LEVELS == {"critical", "high", "medium", "low"}

\* a || b of JavaScript on the values of the model
OrElse(value, default) == IF value \in {Absent, NullValue, ""} THEN default ELSE value

\* { field: default, ...alert }: a key the raw alert carries overrides
Spread(value, default) == IF value = Absent THEN default ELSE value

\* AppHelpers.truncateText
truncateText(text, maxLength) ==
    IF text \in {Absent, NullValue} THEN ""
    ELSE IF Len(text) <= maxLength THEN text
    ELSE SubSeq(text, 1, maxLength) \o "..."

\* GitHubApiService._processAlert on the three required fields
_processAlert(alert) ==
    LET spread == [vulnerability |-> Spread(alert.vulnerability,
                                            OrElse(alert.vulnerability, "Unknown vulnerability")),
                   package       |-> Spread(alert.package,
                                            OrElse(alert.package, "Unknown package")),
                   severity      |-> Spread(alert.severity, OrElse(alert.severity, "low"))]
        levelled == IF spread.severity \in SEVERITY_LEVELS THEN spread
                    ELSE [spread EXCEPT !.severity = "low"]
    IN  [levelled EXCEPT !.vulnerability =
                            truncateText(levelled.vulnerability, MAX_VULNERABILITY_TITLE_LENGTH)]

\* alerts.map(alert => this._processAlert(alert)) of loadSecurityAlerts, on
\* one raw alert of the answer
ProcessAlert ==
    /\ processed.stage = "raw"
    /\ processed' = [processed EXCEPT !.stage = "processed",
                                      !.alert = _processAlert(processed.raw)]
    /\ UNCHANGED <<alerts, gitHubApiService, sidebar, requests, repo_name, loading, aiService,
                   modal, storage, ai_responses, sessions, now, timers, classified>>

\* _validateAlertData of streamFixSuggestion on the processed alert
ValidateAlert ==
    /\ processed.stage = "processed"
    /\ processed' = [processed EXCEPT !.stage = "validated",
                                      !.threw = _validateAlertData(processed.alert).threw]
    /\ UNCHANGED <<alerts, gitHubApiService, sidebar, requests, repo_name, loading, aiService,
                   modal, storage, ai_responses, sessions, now, timers, classified>>

ProcessNext ==
    \/ ProcessAlert
    \/ ValidateAlert

ProcessInit == InitPage({{"a1", "a2"}}, "ok", EmptyCache, {NullSignal}, RawAlerts)

ProcessSpec == ProcessInit /\ [][ProcessNext]_vars

\* ------------------------------------------- the classifiers on their own
\* String.prototype.includes('Failed to fetch') on the messages of the model
includesFailedToFetch(message) == message = FAILED_TO_FETCH

\* AppHelpers.getErrorMessage: the message it returns, or the TypeError of
\* error.message.includes when the error has no message
getErrorMessage(error) ==
    IF error.name = "null"
    THEN [threw |-> FALSE, message |-> ERROR_MESSAGES.NETWORK_ERROR]
    ELSE IF error.name = "TypeError"
    THEN [threw |-> FALSE, message |-> ERROR_MESSAGES.NETWORK_ERROR]
    ELSE IF error.message = NoMessage
    THEN [threw |-> TRUE, message |-> "Cannot read properties of undefined (reading 'includes')"]
    ELSE IF includesFailedToFetch(error.message)
    THEN [threw |-> FALSE, message |-> ERROR_MESSAGES.NETWORK_ERROR]
    ELSE IF error.status = 401
    THEN [threw |-> FALSE, message |-> ERROR_MESSAGES.UNAUTHORIZED]
    ELSE IF error.status = 429
    THEN [threw |-> FALSE, message |-> ERROR_MESSAGES.RATE_LIMITED]
    ELSE [threw |-> FALSE,
          message |-> IF error.message # "" THEN error.message
                      ELSE ERROR_MESSAGES.NETWORK_ERROR]

\* the error field _handleApiError finds in the body of a response
errorField(signal) == IF signal.message = NoMessage THEN NoBody ELSE signal.message

\* AIService._handleApiError on a response: the message of the error it
\* throws, which is the way it hands out its result
ApplyHandleApiError ==
    /\ classified.by = "none"
    /\ classified.signal.name = "Response"
    /\ classified.signal.status # 0
    /\ classified' = [classified EXCEPT !.by = "_handleApiError",
          !.message = _handleApiError(classified.signal.status, errorField(classified.signal))]
    /\ UNCHANGED <<alerts, gitHubApiService, sidebar, requests, processed, repo_name, loading, aiService, modal, storage, ai_responses, sessions, now,
                   timers>>

\* AppHelpers.getErrorMessage on what a catch block caught
ApplyGetErrorMessage ==
    /\ classified.by = "none"
    /\ classified.signal.name # "Response"
    /\ LET r == getErrorMessage(classified.signal)
       IN  classified' = [classified EXCEPT !.by = "getErrorMessage",
                                            !.threw = r.threw, !.message = r.message]
    /\ UNCHANGED <<alerts, gitHubApiService, sidebar, requests, processed, repo_name, loading, aiService, modal, storage, ai_responses, sessions, now,
                   timers>>

ClassifyInit == InitWith({{"a1", "a2"}}, "ok", EmptyCache, Signals)

ClassifyNext ==
    \/ ApplyHandleApiError
    \/ ApplyGetErrorMessage

ClassifySpec == ClassifyInit /\ [][ClassifyNext]_vars

\* ------------------------------------------------------------ properties
Sessions == DOMAIN sessions

\* the notifications of a session that AIService delivers through onData,
\* onComplete and onError, and the caller's cancel
ServiceTypes == {"onData", "onComplete", "onError"}
TerminalTypes == {"onComplete", "onError", "Cancelled"}

HasEvent(s, type) == \E i \in DOMAIN sessions[s].events : sessions[s].events[i].type = type

\* the number of calls of the subscriber's error handler for session s
FailedNotifications(s) ==
    Cardinality({i \in DOMAIN sessions[s].events :
                    sessions[s].events[i].type \in {"onError", "catch"}})

\* C1: at most one suggestion exchange is in flight at any instant.
C1_SingleFlight ==
    Cardinality({s \in Sessions : InFlight(s)}) <= 1

\* C2: a request for assistance for an alert with a valid cache entry starts
\* no exchange with the suggestion service and leaves the cached text shown.
C2_CacheHitFastPath ==
    [][\A a \in alerts :
          (~getCachedResponse(ai_responses, a, now).null /\ RequestAssist(a))
          => /\ sessions' = sessions
             /\ modal'.content = Content("text", getCachedResponse(ai_responses, a, now).value)]_vars

\* C3: the notifications of a session are zero or more onData followed by
\* exactly one terminal notification: nothing follows a terminal notification,
\* and a finished session has one.
C3_EventSequence ==
    \A s \in Sessions :
       LET ev == SelectSeq(sessions[s].events,
                           LAMBDA e : e.type \in ServiceTypes \cup {"Cancelled"})
       IN  /\ \A i, j \in DOMAIN ev : i < j => ev[i].type \notin TerminalTypes
           /\ sessions[s].pc = "done" => \E i \in DOMAIN ev : ev[i].type \in TerminalTypes

\* C4: after a cancel issued while the session was streaming and had delivered
\* at least one onData, no onData, onComplete or onError of it is delivered.
C4_CancelMidStream ==
    \A s \in Sessions :
       LET ev == sessions[s].events
       IN  \A i, j \in DOMAIN ev :
              ( /\ i < j
                /\ ev[i].type = "Cancelled" /\ ev[i].message = "read"
                /\ \E k \in 1..(i-1) : ev[k].type = "onData" )
              => ev[j].type \notin ServiceTypes

\* C5: after a cancel issued while the request was still awaiting its first
\* response, no onData, onComplete or onError of the session is delivered.
C5_CancelWhileRequesting ==
    \A s \in Sessions :
       LET ev == sessions[s].events
       IN  \A i, j \in DOMAIN ev :
              (i < j /\ ev[i].type = "Cancelled" /\ ev[i].message = "post")
              => ev[j].type \notin ServiceTypes

\* C6: while a session is active (in flight and not cancelled), a request for
\* a different alert without a valid cache entry is rejected with
\* "already in progress" instead of issuing a second POST.
C6_AlreadyInProgress ==
    \A s \in Sessions :
       (InFlight(s) /\ ~sessions[s].cancelled)
       => \A a \in alerts :
             (a # sessions[s].alert /\ getCachedResponse(ai_responses, a, now).null)
             => startOutcome(aiService, a) = "AlreadyInProgress"

\* C7: a session the caller did not cancel, started for an alert without a
\* valid cache entry, that completed with a text made exactly one cache write:
\* its Completed text under its own alert id.
C7_CompletionCached ==
    \A s \in Sessions :
       ( /\ HasEvent(s, "onComplete") /\ ~sessions[s].cancelled
         /\ ~sessions[s].cacheHit /\ sessions[s].buffer # EmptyText )
       => sessions[s].writes = << [key |-> sessions[s].alert, response |-> sessions[s].buffer] >>

\* C8: every cache entry stored under alert id X holds a text that a session
\* started for alert X reported as Completed.
C8_CacheEntryOwner ==
    \A k \in DOMAIN ai_responses :
       \E s \in Sessions :
          /\ sessions[s].alert = k
          /\ \E i \in DOMAIN sessions[s].events :
                /\ sessions[s].events[i].type = "onComplete"
                /\ sessions[s].events[i].text = ai_responses[k].response

\* C9: a session that the caller cancelled, or that failed, writes nothing to
\* the cache.
C9_NoWriteAfterCancelOrFail ==
    \A s \in Sessions :
       (sessions[s].cancelled \/ HasEvent(s, "onError")) => sessions[s].writes = << >>

\* C10: a session answered with status 429 gives the subscriber exactly one
\* Failed notification, with the rate-limit message, no onData or onComplete
\* and no cache write.
C10_RateLimited ==
    \A s \in Sessions :
       (sessions[s].pc = "done" /\ sessions[s].status = 429)
       => /\ FailedNotifications(s) = 1
          /\ \A i \in DOMAIN sessions[s].events :
                /\ sessions[s].events[i].type \notin {"onData", "onComplete"}
                /\ sessions[s].events[i].type \in {"onError", "catch"}
                   => sessions[s].events[i].message = ERROR_MESSAGES.RATE_LIMITED
          /\ sessions[s].writes = << >>

\* the number of Cancelled events in the record of a session
CancelledCount(session) ==
    Cardinality({i \in DOMAIN session.events : session.events[i].type = "Cancelled"})

C12_FailureRelayed ==
    \A s \in Sessions :
       (sessions[s].pc = "done" /\ HasEvent(s, "onError") /\ sessions[s].callbackArg # "none")
       => sessions[s].callbackArg = "error"

\* C13: a request (a click on AI Assist, or Try Again) for an alert that
\* lacks a required field, made while the service is not streaming, fails with
\* the message of the validation, issues no POST, and leaves the service's
\* isStreaming false, so that a start for a valid alert is accepted.
C13_InvalidInput ==
    [][\A a \in alerts :
          ( /\ missingFields(Alert(a)) # {}
            /\ ~aiService.isStreaming
            /\ RequestAssist(a) \/ (Retry /\ modal.currentAlert = a) )
          => /\ sessions' = sessions
             /\ modal'.content = Content("error", <<MissingMessage(missingFields(Alert(a)))>>)
             /\ ~aiService'.isStreaming
             /\ \A b \in alerts :
                   missingFields(Alert(b)) = {} => startOutcome(aiService', b) = "started"]_vars

\* C13 witness: assistance was requested for the alert without a package
\* before any session, and was refused with the validation message
C13_Witness ==
    /\ modal.currentAlert = "a3"
    /\ modal.content = Content("error", <<"Missing required fields: package">>)
    /\ sessions = << >>
    /\ ~aiService.isStreaming

\* C14: a session does not outlive the bound on the duration of its exchange:
\* over a step in which the clock advances by more than API_TIMEOUT, no session
\* that was in flight before the step is still in flight after it.
C14_Timeout ==
    [][(now' - now > API_TIMEOUT)
       => \A s \in Sessions : InFlight(s) => sessions'[s].pc = "done"]_vars

\* the age of the cache entry of alert a
Age(a) == now - ai_responses[a].timestamp

\* C15: the cache read returns the stored text of every entry whose age does
\* not exceed the retention window, an age of exactly 24 hours included, and
\* absent when there is no entry or its age exceeds the window.
C15_CacheReadWindow ==
    \A a \in alerts :
       LET cachedR == getCachedResponse(ai_responses, a, now)
       IN  IF a \in DOMAIN ai_responses /\ Age(a) <= RETENTION
           THEN ~cachedR.null /\ cachedR.value = ai_responses[a].response
           ELSE cachedR.null

\* C16: an entry stored 25 hours ago is absent for the cache read.
C16_ExpiredEntryAbsent ==
    \A a \in alerts :
       (a \in DOMAIN ai_responses /\ Age(a) = 25 * Hour)
       => getCachedResponse(ai_responses, a, now).null

\* C16 witness: the cache holds an entry stored 25 hours ago, and the modal
\* shows no cached text
C16_Witness ==
    \E a \in alerts :
       /\ a \in DOMAIN ai_responses /\ Age(a) = 25 * Hour
       /\ modal.content.kind # "text"

\* C17: cacheResponse(alertId, text) stores text under alertId with the
\* current time and leaves the other entries alone, and every read of alertId
\* from then until the age of the entry exceeds the retention window returns
\* exactly text.
C17_PutGetRoundTrip ==
    [][\A a \in alerts, text \in CacheTexts :
          CachePutOf(a, text)
          => /\ a \in DOMAIN ai_responses'
             /\ ai_responses'[a] = [response |-> text, timestamp |-> now]
             /\ \A b \in (DOMAIN ai_responses) \ {a} : ai_responses'[b] = ai_responses[b]
             /\ DOMAIN ai_responses' = (DOMAIN ai_responses) \cup {a}
             /\ \A d \in {0, 12 * Hour, 24 * Hour} :
                   d <= RETENTION
                   => getCachedResponse(ai_responses', a, now + d)
                         = [null |-> FALSE, value |-> text]]_vars

\* C18: while localStorage throws or its item is unparsable, the cache read
\* returns absent for every alert, a cache write and clearCache leave a cache
\* that still reads as absent or holds just what was written, and no failure
\* of the storage reaches a session: a session that completed delivered
\* onComplete last, no error notification, and callback(null) to its caller.
C18_StorageFailureSilent ==
    /\ storage # "ok" =>
          \A a \in alerts :
             /\ getCachedResponse(StoredCache, a, now).null
             /\ LET c == clearCache(storage, ai_responses)
                IN  getCachedResponse(storageGet(c.mode, c.item, EmptyCache), a, now).null
             /\ LET w == storageSet(storage, ai_responses,
                                    cacheResponse(StoredCache, a, <<DoneMarker>>, now))
                    cachedR == getCachedResponse(storageGet(w.mode, w.item, EmptyCache), a, now)
                IN  cachedR.null \/ cachedR.value = <<DoneMarker>>
    /\ \A s \in Sessions :
          HasEvent(s, "onComplete")
          => /\ sessions[s].pc = "done"
             /\ sessions[s].events[Len(sessions[s].events)].type = "onComplete"
             /\ FailedNotifications(s) = 0
             /\ sessions[s].callback => sessions[s].callbackArg = "null"

\* C18 witness: localStorage throws and holds an entry of an earlier visit for
\* a1; a session for a1 ran and completed, its text is shown, and the cache
\* read is still absent
C18_Witness ==
    /\ storage = "throws"
    /\ "a1" \in DOMAIN ai_responses
    /\ getCachedResponse(StoredCache, "a1", now).null
    /\ \E s \in Sessions :
          /\ sessions[s].alert = "a1" /\ HasEvent(s, "onComplete")
          /\ sessions[s].buffer # EmptyText
          /\ modal.content = Content("text", formatResponse(sessions[s].buffer))

\* the message the classification table gives a signal that maps to a fixed
\* kind: Unauthorized, RateLimited, ServiceInternalError, ServiceUnavailable,
\* and NetworkError when no response was received (null, or the TypeError a
\* rejected fetch carries)
HasFixedKind(signal) ==
    \/ signal.status \in {401, 429, 500, 503}
    \/ signal.status = 0 /\ signal.name \in {"null", "TypeError"}

FixedKindMessage(signal) ==
    CASE signal.status = 401 -> ERROR_MESSAGES.UNAUTHORIZED
      [] signal.status = 429 -> ERROR_MESSAGES.RATE_LIMITED
      [] signal.status = 500 -> SERVICE_INTERNAL
      [] signal.status = 503 -> SERVICE_UNAVAILABLE
      [] OTHER               -> ERROR_MESSAGES.NETWORK_ERROR

\* C19: a classified signal has the message of its row of the table: the
\* fixed message for 401, 429, 500, 503 and for no response, whatever raw
\* message the signal carries, and the raw message for any other failing
\* status that carries one.
C19_ClassificationTable ==
    (classified.by # "none" /\ ~classified.threw)
    => LET signal == classified.signal
       IN  /\ HasFixedKind(signal) => classified.message = FixedKindMessage(signal)
           /\ ( /\ ~HasFixedKind(signal) /\ signal.status # 0
                /\ signal.message \notin {NoMessage, ""} )
              => classified.message = signal.message

\* C20: no classifier raises, whatever the signal: one without status and
\* without message, and one that is no Error object, are classified too.
C20_ClassifierNeverRaises ==
    classified.by # "none" => ~classified.threw

\* the error kinds of an assistance request, and the messages the program
\* surfaces for each: thrown by streamFixSuggestion before the POST, carried
\* by a rejected fetch or read, or thrown by _handleApiError for a status
ErrorKinds ==
    {"InvalidInput", "AlreadyInProgress", "NetworkError", "Unauthorized", "RateLimited",
     "ServiceInternalError", "ServiceUnavailable", "UnknownApiError"}

KindMessages(kind) ==
    CASE kind = "InvalidInput" ->
            {MissingMessage(missing) : missing \in (SUBSET requiredFields) \ {{}}}
      [] kind = "AlreadyInProgress"    -> {ALREADY_IN_PROGRESS}
      [] kind = "NetworkError"         -> {FAILED_TO_FETCH, STREAM_READ_FAILED}
      [] kind = "Unauthorized"         -> {_handleApiError(401, body) : body \in Bodies}
      [] kind = "RateLimited"          -> {_handleApiError(429, body) : body \in Bodies}
      [] kind = "ServiceInternalError" -> {_handleApiError(500, body) : body \in Bodies}
      [] kind = "ServiceUnavailable"   -> {_handleApiError(503, body) : body \in Bodies}
      [] kind = "UnknownApiError"      -> {_handleApiError(404, body) : body \in Bodies}

Partials(s) == SelectSeq(sessions[s].events, LAMBDA e : e.type = "onData")

IsPrefix(u, v) == Len(u) <= Len(v) /\ SubSeq(v, 1, Len(u)) = u

Completions(events) == SelectSeq(events, LAMBDA e : e.type = "onComplete")

\* C23: a session that completed called onComplete once, with the whole
\* accumulated text, which is the text of its last onData or empty when no
\* chunk arrived; and the cache item changes only in the step in which the
\* modal's completion handler stored the text.
C23_CompletedOnce ==
    /\ [](\A s \in Sessions :
            LET done == Completions(sessions[s].events)
            IN  done # << >>
                => /\ Len(done) = 1
                   /\ done[1].text = sessions[s].buffer
                   /\ done[1].text = IF Partials(s) = << >> THEN EmptyText
                                     ELSE Partials(s)[Len(Partials(s))].text)
    /\ [][ai_responses' # ai_responses
          => \E s \in Sessions :
                /\ Completions(sessions[s].events) = << >>
                /\ Completions(sessions'[s].events) # << >>
                /\ sessions'[s].writes # << >>]_vars

\* C23 witness: a session read two chunks and completed, and the modal's
\* completion handler stored the text
C23_Witness ==
    \E s \in Sessions :
       /\ Completions(sessions[s].events) # << >>
       /\ Len(sessions[s].buffer) = 2
       /\ sessions[s].writes # << >>

\* C24: a session whose accumulated text contains the marker has completed,
\* the completed text contains no marker before its last chunk (the session
\* completed at the first chunk that introduced it, or at end-of-stream), and
\* after onComplete no chunk is accumulated or delivered as onData.
C24_CompletionDetection ==
    /\ [](\A s \in Sessions :
            LET done == Completions(sessions[s].events)
            IN  /\ includes(sessions[s].buffer, DoneMarker) => done # << >>
                /\ done # << >>
                   => \A k \in 1..(Len(done[1].text) - 1) :
                         ~includes(SubSeq(done[1].text, 1, k), DoneMarker))
    /\ [][\A s \in Sessions :
            Completions(sessions[s].events) # << >>
            => /\ sessions'[s].buffer = sessions[s].buffer
               /\ SelectSeq(sessions'[s].events, LAMBDA e : e.type = "onData") = Partials(s)]_vars

\* C24 witness: a session completed on the marker, which its second chunk
\* introduced
C24_Witness ==
    \E s \in Sessions :
       /\ Completions(sessions[s].events) # << >>
       /\ Len(sessions[s].buffer) = 2
       /\ sessions[s].buffer[2] = DoneMarker

\* C25: in the step in which a session the caller did not cancel completes
\* with a text and its completion is relayed (the promise of
\* streamFixSuggestion resolves and the callback of handleAIAssistRequest
\* runs), the cache returns that text for the alert of the session.
C25_CachedBeforeRelay ==
    [][\A s \in Sessions :
          ( /\ Completions(sessions[s].events) = << >>
            /\ Completions(sessions'[s].events) # << >>
            /\ ~sessions[s].cancelled
            /\ sessions'[s].buffer # EmptyText )
          => LET cached == getCachedResponse(ai_responses', sessions[s].alert, now')
             IN  ~cached.null /\ cached.value = sessions'[s].buffer]_vars

\* C26: a request for assistance leaves every field of the alert object as
\* it was.
C26_AlertUnchanged ==
    [][\A a \in alerts : RequestAssist(a) => repo_name'[a] = repo_name[a]]_vars

\* C27: a session that reported a failure is finished (it issues no further
\* request), and a request is issued only by a step of a click on AI Assist or
\* on Try Again, as one new session that starts from the beginning.
C27_NoRetry ==
    /\ [](\A s \in Sessions : HasEvent(s, "onError") => sessions[s].pc = "done")
    /\ [][Len(sessions') # Len(sessions)
          => /\ (\E a \in alerts : RequestAssist(a)) \/ Retry
             /\ Len(sessions') = Len(sessions) + 1
             /\ SubSeq(sessions', 1, Len(sessions)) = sessions
             /\ sessions'[Len(sessions')].pc = "post"
             /\ sessions'[Len(sessions')].buffer = EmptyText
             /\ sessions'[Len(sessions')].events = << >>]_vars

\* C27 witness: the first session failed, and a click on Try Again started the
\* second
C27_Witness ==
    /\ Len(sessions) = 2
    /\ HasEvent(1, "onError")
    /\ ~sessions[2].callback /\ sessions[2].callbackArg = "none"

\* C28: whatever the cache holds, what clearCache leaves of it returns absent
\* for every alert; after a clearCache the cache stays so until cacheResponse
\* stores a text; and clearCache changes nothing but the stored item.
C28_ClearRemovesAll ==
    /\ [](LET w == clearCache(storage, ai_responses)
          IN  \A a \in alerts :
                 getCachedResponse(storageGet(w.mode, w.item, EmptyCache), a, now).null)
    /\ [][CacheClear
          => /\ \A a \in alerts : getCachedResponse(StoredCache', a, now').null
             /\ UNCHANGED <<aiService, modal, sessions, loading, repo_name, now, timers>>]_vars
    /\ [][( /\ \A a \in alerts : getCachedResponse(StoredCache, a, now).null
            /\ ai_responses = EmptyCache
            /\ ~CachePut )
          => \A a \in alerts : getCachedResponse(StoredCache', a, now').null]_vars

\* C28 witness: the modal shows a text it loaded from the cache, and
\* clearCache has since removed every entry
C28_Witness ==
    /\ ai_responses = EmptyCache
    /\ modal.content.kind = "text" /\ modal.content.text # EmptyText

\* no call of streamFixSuggestion is suspended between its POST and its end
NoSessionActive == \A s \in Sessions : ~InFlight(s)

C30_FlagTracksSession ==
    /\ aiService.isStreaming <=> (\E s \in Sessions : InFlight(s))
    /\ aiService.currentStream # NoStream => aiService.isStreaming

\* the notifications of kind type among the events of a session
Delivered(events, type) == SelectSeq(events, LAMBDA e : e.type = type)

\* C31: when the modal was closed during the stream of a session and is open
\* for another alert, a step in which that session delivers onData or
\* onComplete changes neither the content the modal shows nor its Create
\* Pull Request button.
C31_TextOfCurrentAlert ==
    [][\A s \in Sessions :
          ( /\ sessions[s].cancelled
            /\ modal.isVisible /\ modal.currentAlert # sessions[s].alert
            /\ \/ Len(Delivered(sessions'[s].events, "onData"))
                     > Len(Delivered(sessions[s].events, "onData"))
               \/ Len(Delivered(sessions'[s].events, "onComplete"))
                     > Len(Delivered(sessions[s].events, "onComplete")) )
          => /\ modal'.content = modal.content
             /\ modal'.prDisabled = modal.prDisabled]_vars

\* C32: whenever the service has a stream in flight, the modal's own
\* isStreaming flag is true (so that closeModal calls cancelStream).
C32_ModalFlagTracksStream ==
    aiService.isStreaming => modal.isStreaming

\* C33: a request for an alert with a valid cache entry, made while a session
\* the caller did not cancel is active for another alert the modal is open
\* for, leaves that session and the service as they are, and the completion
\* of the session is still stored under the session's own alert.
C33_CacheServedKeepsSession ==
    [][\A a \in alerts : \A s \in Sessions :
          ( /\ RequestAssist(a)
            /\ ~getCachedResponse(StoredCache, a, now).null
            /\ InFlight(s) /\ ~sessions[s].cancelled
            /\ sessions[s].alert # a
            /\ modal.isVisible /\ modal.currentAlert = sessions[s].alert )
          => /\ sessions' = sessions
             /\ aiService' = aiService
             /\ handleStreamingComplete(modal', StoredCache', <<DoneMarker>>, now').writes
                   = << [key |-> sessions[s].alert, response |-> <<DoneMarker>>] >>]_vars

\* C34: over a network that eventually answers, every session in flight
\* eventually ends with onComplete or onError, and a service that is streaming
\* eventually is not, and then refuses no alert as already in progress.
C34_EventuallyReleased ==
    /\ \A s \in 1..MaxSessions :
          (s \in Sessions /\ InFlight(s))
          ~> (s \in Sessions /\ ~InFlight(s)
              /\ (HasEvent(s, "onComplete") \/ HasEvent(s, "onError")))
    /\ aiService.isStreaming
       ~> ( /\ ~aiService.isStreaming
            /\ \A a \in alerts : startOutcome(aiService, a) # "AlreadyInProgress" )

\* C34 witness: as many sessions as the bound allows were started, all have
\* ended, and the service is not streaming
C34_Witness ==
    /\ Len(sessions) = MaxSessions
    /\ NoSessionActive
    /\ ~aiService.isStreaming

\* C35: while the modal is open, its Create Pull Request button is enabled
\* only if the modal is not streaming and shows a finished response for its
\* current alert: the text a session of that alert completed with, or the
\* text the cache holds for that alert.
C35_PRButton ==
    (modal.isVisible /\ ~modal.prDisabled)
    => /\ ~modal.isStreaming
       /\ modal.content.kind = "text"
       /\ \/ \E s \in Sessions :
                /\ sessions[s].alert = modal.currentAlert
                /\ HasEvent(s, "onComplete")
                /\ modal.content.text = formatResponse(sessions[s].buffer)
          \/ LET cachedR == getCachedResponse(StoredCache, modal.currentAlert, now)
             IN  ~cachedR.null /\ modal.content.text = cachedR.value

\* the accepted calls of the service that have not ended
PendingRequests == {r \in DOMAIN requests : requests[r].pc # "done"}

\* C36: at most one accepted call of searchRepositories or loadSecurityAlerts
\* is pending, isLoading is true exactly while one is, and a call made while
\* isLoading is true issues no request and leaves the flag as it is.
C36_ApiSingleFlight ==
    /\ [](Cardinality(PendingRequests) <= 1)
    /\ [](gitHubApiService.isLoading <=> PendingRequests # {})
    /\ [][(gitHubApiService.isLoading /\ (SearchClicked \/ LoadAlertsClick))
          => requests' = requests /\ gitHubApiService' = gitHubApiService]_vars

\* C36 witness: a search was refused while the alerts were being loaded: the
\* search cleared the selection, and the load is still pending
C36_Witness ==
    /\ \E r \in PendingRequests : requests[r].name = "loadSecurityAlerts"
    /\ sidebar.selectedRepository = NoRepository
    /\ gitHubApiService.isLoading

\* C37: the load button is enabled only if a repository is selected.
C37_LoadButtonNeedsSelection ==
    ~sidebar.loadBtnDisabled => sidebar.selectedRepository # NoRepository

\* C38: every alert _processAlert returns has a non-empty vulnerability, a
\* non-empty package and one of the four severities, and passes
\* _validateAlertData.
C38_ProcessedAlertComplete ==
    /\ processed.stage # "raw" =>
          /\ processed.alert.vulnerability \notin {"", Absent, NullValue}
          /\ processed.alert.package \notin {"", Absent, NullValue}
          /\ processed.alert.severity \in SEVERITY_LEVELS
    /\ processed.stage = "validated" => ~processed.threw

====
